---- MODULE Spec2Model ----
(***************************************************************************)
(* VoiceNote Transcriber backend (src/backend/main.py).                    *)
(*                                                                         *)
(* A Python str is modelled as a sequence of one-character strings, so     *)
(* that suffix extraction, lower-casing, joining and JSON decoding are     *)
(* computed character by character, as the library routines do.            *)
(***************************************************************************)
EXTENDS Integers, Sequences, FiniteSets, TLC

(***************************************************************************)
(* Bounds of the model.                                                    *)
(***************************************************************************)
\* number of POST /transcribe requests that may be in flight together
MaxRequests == 2
\* number of distinct names the temp directory can hand out
NumPaths == 2
\* longest segment sequence the Recognizer returns
MaxSegs == 2

(***************************************************************************)
(* str helpers                                                             *)
(***************************************************************************)
\* index of the last occurrence of character c in s, 0 when absent
\* (Python's rfind returns -1 and counts from 0)
RECURSIVE RFindFrom(_, _, _)
RFindFrom(s, c, i) ==
    IF i = 0 THEN 0
    ELSE IF s[i] = c THEN i
    ELSE RFindFrom(s, c, i - 1)

RFind(s, c) == RFindFrom(s, c, Len(s))

UpperToLower ==
    [c \in {"A","B","C","D","E","F","G","H","I","J","K","L","M",
            "N","O","P","Q","R","S","T","U","V","W","X","Y","Z"} |->
       CASE c = "A" -> "a" [] c = "B" -> "b" [] c = "C" -> "c" [] c = "D" -> "d"
         [] c = "E" -> "e" [] c = "F" -> "f" [] c = "G" -> "g" [] c = "H" -> "h"
         [] c = "I" -> "i" [] c = "J" -> "j" [] c = "K" -> "k" [] c = "L" -> "l"
         [] c = "M" -> "m" [] c = "N" -> "n" [] c = "O" -> "o" [] c = "P" -> "p"
         [] c = "Q" -> "q" [] c = "R" -> "r" [] c = "S" -> "s" [] c = "T" -> "t"
         [] c = "U" -> "u" [] c = "V" -> "v" [] c = "W" -> "w" [] c = "X" -> "x"
         [] c = "Y" -> "y" [] c = "Z" -> "z"]

\* str.lower()
Lower(s) ==
    [i \in 1..Len(s) |->
        IF s[i] \in DOMAIN UpperToLower THEN UpperToLower[s[i]] ELSE s[i]]

\* sep.join(parts)
RECURSIVE Join(_, _)
Join(sep, parts) ==
    IF Len(parts) = 0 THEN <<>>
    ELSE IF Len(parts) = 1 THEN parts[1]
    ELSE parts[1] \o sep \o Join(sep, Tail(parts))

(***************************************************************************)
(* pathlib: Path(filename).suffix                                          *)
(***************************************************************************)
\* the components of a path: split on "/", dropping empty and "." parts
RECURSIVE PathParts(_, _, _)
PathParts(s, i, cur) ==
    LET keep == IF cur = <<>> \/ cur = <<".">> THEN <<>> ELSE <<cur>>
    IN IF i > Len(s) THEN keep
       ELSE IF s[i] = "/" THEN keep \o PathParts(s, i + 1, <<>>)
       ELSE PathParts(s, i + 1, Append(cur, s[i]))

\* PurePath.name: the final component
PathName(s) ==
    LET parts == PathParts(s, 1, <<>>)
    IN IF Len(parts) = 0 THEN <<>> ELSE parts[Len(parts)]

\* PurePath.suffix: from the last dot of the name, unless that dot is the
\* first or the last character of the name
PathSuffix(s) ==
    LET name == PathName(s)
        i == RFind(name, ".")
    IN IF 1 < i /\ i < Len(name) THEN SubSeq(name, i, Len(name)) ELSE <<>>

(***************************************************************************)
(* json.loads                                                              *)
(***************************************************************************)
\* A decoded value: kind is the Python type; s the text of a str, int, bool
\* or None; members the items of a dict (key, value) or list (value).
PyVal(kind, s, members) == [kind |-> kind, s |-> s, members |-> members]
PyStr(s) == PyVal("str", s, <<>>)
PyInt(s) == PyVal("int", s, <<>>)
PyBool(s) == PyVal("bool", s, <<>>)
PyNone == PyVal("NoneType", <<>>, <<>>)
PyList(items) == PyVal("list", <<>>, items)
PyDict(items) == PyVal("dict", <<>>, items)
Item(k, v) == [key |-> k, value |-> v]

ParseFail == [ok |-> FALSE, value |-> PyNone, next |-> 0]
ParseOk(v, n) == [ok |-> TRUE, value |-> v, next |-> n]

Whitespace == {" ", "\t", "\n", "\r"}
Digits == {"0","1","2","3","4","5","6","7","8","9"}
ControlChars == {"\t", "\n", "\r", "\f"}
\* the character an escape sequence \c stands for
Escapes ==
    [c \in {"\"", "\\", "/", "n", "t", "r", "f"} |->
       CASE c = "\"" -> "\"" [] c = "\\" -> "\\" [] c = "/" -> "/"
         [] c = "n" -> "\n" [] c = "t" -> "\t" [] c = "r" -> "\r"
         [] c = "f" -> "\f"]

LitNull == <<"n","u","l","l">>
LitTrue == <<"t","r","u","e">>
LitFalse == <<"f","a","l","s","e">>

MatchAt(t, i, lit) ==
    /\ i + Len(lit) - 1 <= Len(t)
    /\ SubSeq(t, i, i + Len(lit) - 1) = lit

RECURSIVE SkipWs(_, _)
SkipWs(t, i) ==
    IF i <= Len(t) /\ t[i] \in Whitespace THEN SkipWs(t, i + 1) ELSE i

\* the body of a string literal, from the character after the opening quote
RECURSIVE ScanString(_, _, _)
ScanString(t, i, acc) ==
    IF i > Len(t) THEN ParseFail
    ELSE IF t[i] = "\"" THEN ParseOk(PyStr(acc), i + 1)
    ELSE IF t[i] = "\\" THEN
        IF i + 1 <= Len(t) /\ t[i + 1] \in DOMAIN Escapes
        THEN ScanString(t, i + 2, Append(acc, Escapes[t[i + 1]]))
        ELSE ParseFail
    ELSE IF t[i] \in ControlChars THEN ParseFail
    ELSE ScanString(t, i + 1, Append(acc, t[i]))

RECURSIVE ScanDigits(_, _)
ScanDigits(t, i) ==
    IF i <= Len(t) /\ t[i] \in Digits THEN ScanDigits(t, i + 1) ELSE i

\* an integer: -?(0|[1-9][0-9]*)
ScanNumber(t, i) ==
    LET j == IF t[i] = "-" THEN i + 1 ELSE i
    IN IF j > Len(t) \/ t[j] \notin Digits THEN ParseFail
       ELSE LET k == IF t[j] = "0" THEN j + 1 ELSE ScanDigits(t, j)
            IN ParseOk(PyInt(SubSeq(t, i, k - 1)), k)

RECURSIVE ParseValue(_, _), ParseArrayRest(_, _, _), ParseObjectRest(_, _, _)

\* scan_once: the value starting exactly at index i
ParseValue(t, i) ==
    IF i > Len(t) THEN ParseFail
    ELSE IF t[i] = "\"" THEN ScanString(t, i + 1, <<>>)
    ELSE IF t[i] = "{" THEN
        LET j == SkipWs(t, i + 1)
        IN IF j <= Len(t) /\ t[j] = "}" THEN ParseOk(PyDict(<<>>), j + 1)
           ELSE ParseObjectRest(t, j, <<>>)
    ELSE IF t[i] = "[" THEN
        LET j == SkipWs(t, i + 1)
        IN IF j <= Len(t) /\ t[j] = "]" THEN ParseOk(PyList(<<>>), j + 1)
           ELSE ParseArrayRest(t, j, <<>>)
    ELSE IF MatchAt(t, i, LitNull) THEN ParseOk(PyNone, i + 4)
    ELSE IF MatchAt(t, i, LitTrue) THEN ParseOk(PyBool(LitTrue), i + 4)
    ELSE IF MatchAt(t, i, LitFalse) THEN ParseOk(PyBool(LitFalse), i + 5)
    ELSE IF t[i] \in Digits \cup {"-"} THEN ScanNumber(t, i)
    ELSE ParseFail

\* JSONArray after "[": value ("," value)* "]"
ParseArrayRest(t, i, acc) ==
    LET v == ParseValue(t, i)
    IN IF ~v.ok THEN ParseFail
       ELSE LET j == SkipWs(t, v.next)
                items == Append(acc, Item(<<>>, v.value))
            IN IF j > Len(t) THEN ParseFail
               ELSE IF t[j] = "]" THEN ParseOk(PyList(items), j + 1)
               ELSE IF t[j] = "," THEN ParseArrayRest(t, SkipWs(t, j + 1), items)
               ELSE ParseFail

\* JSONObject after "{": string ":" value ("," string ":" value)* "}"
ParseObjectRest(t, i, acc) ==
    IF i > Len(t) \/ t[i] # "\"" THEN ParseFail
    ELSE LET k == ScanString(t, i + 1, <<>>)
         IN IF ~k.ok THEN ParseFail
            ELSE LET c == SkipWs(t, k.next)
                 IN IF c > Len(t) \/ t[c] # ":" THEN ParseFail
                    ELSE LET v == ParseValue(t, SkipWs(t, c + 1))
                         IN IF ~v.ok THEN ParseFail
                            ELSE LET j == SkipWs(t, v.next)
                                     items == Append(acc, Item(k.value.s, v.value))
                                 IN IF j > Len(t) THEN ParseFail
                                    ELSE IF t[j] = "}" THEN ParseOk(PyDict(items), j + 1)
                                    ELSE IF t[j] = ","
                                         THEN ParseObjectRest(t, SkipWs(t, j + 1), items)
                                    ELSE ParseFail

\* json.loads(t): one value, surrounded by optional whitespace, and nothing
\* else; ok = FALSE stands for json.JSONDecodeError
JsonLoads(t) ==
    LET r == ParseValue(t, SkipWs(t, 1))
    IN IF r.ok /\ SkipWs(t, r.next) = Len(t) + 1 THEN r ELSE ParseFail

\* dict.get(key, default): the value of the last item with that key
RECURSIVE GetFrom(_, _, _, _)
GetFrom(items, i, key, default) ==
    IF i = 0 THEN default
    ELSE IF items[i].key = key THEN items[i].value
    ELSE GetFrom(items, i - 1, key, default)

DictGet(d, key, default) == GetFrom(d.members, Len(d.members), key, default)

(***************************************************************************)
(* String literals of the program and of its inputs                        *)
(***************************************************************************)
STR_VOICE_NOTE ==
    <<"V","o","i","c","e"," ","N","o","t","e">>

STR_VOICE_NOTE_TRANSCRIPTION ==
    <<"V","o","i","c","e"," ","N","o","t","e"," ","T","r","a","n","s","c","r","i","p","t","i",
      "o","n">>

STR_FALLBACK_HEADING ==
    <<"#"," ","V","o","i","c","e"," ","N","o","t","e"," ","T","r","a","n","s","c","r","i","p",
      "t","i","o","n","\n","\n">>

STR_TRANSCRIPTION_FAILED ==
    <<"T","r","a","n","s","c","r","i","p","t","i","o","n"," ","f","a","i","l","e","d",":"," ">>

STR_OLLAMA_REQUEST_FAILED ==
    <<"O","l","l","a","m","a"," ","r","e","q","u","e","s","t"," ","f","a","i","l","e","d",":",
      " ">>

STR_OLLAMA_UNAVAILABLE ==
    <<"O","l","l","a","m","a"," ","s","e","r","v","i","c","e"," ","u","n","a","v","a","i","l",
      "a","b","l","e",":"," ">>

STR_UNSUPPORTED ==
    <<"U","n","s","u","p","p","o","r","t","e","d"," ","f","i","l","e"," ","t","y","p","e"," ",
      "'">>

STR_ALLOWED ==
    <<"'","."," ","A","l","l","o","w","e","d",":"," ">>

KEY_TITLE ==
    <<"t","i","t","l","e">>

KEY_CONTENT ==
    <<"c","o","n","t","e","n","t">>

KEY_RESPONSE ==
    <<"r","e","s","p","o","n","s","e">>

allowed_extensions ==
    <<<<".","m","p","3">>,
      <<".","w","a","v">>,
      <<".","m","4","a">>,
      <<".","o","g","g">>,
      <<".","f","l","a","c">>,
      <<".","a","a","c">>>>

\* {"title":"T","content":"C"}
R_TC ==
    <<"{","\"","t","i","t","l","e","\"",":","\"","T","\"",",","\"","c","o","n","t","e","n","t",
      "\"",":","\"","C","\"","}">>

\* {"response":"{\"title\":\"T\",\"content\":\"C\"}","done":true}
ENV_TC ==
    <<"{","\"","r","e","s","p","o","n","s","e","\"",":","\"","{","\\","\"","t","i","t","l","e",
      "\\","\"",":","\\","\"","T","\\","\"",",","\\","\"","c","o","n","t","e","n","t","\\","\"",
      ":","\\","\"","C","\\","\"","}","\"",",","\"","d","o","n","e","\"",":","t","r","u","e","}">>

\* {"response":"{\"title\":\"T\"}","done":true}
ENV_T ==
    <<"{","\"","r","e","s","p","o","n","s","e","\"",":","\"","{","\\","\"","t","i","t","l","e",
      "\\","\"",":","\\","\"","T","\\","\"","}","\"",",","\"","d","o","n","e","\"",":","t","r",
      "u","e","}">>

\* {"response":"{\"content\":\"C\"}","done":true}
ENV_C ==
    <<"{","\"","r","e","s","p","o","n","s","e","\"",":","\"","{","\\","\"","c","o","n","t","e",
      "n","t","\\","\"",":","\\","\"","C","\\","\"","}","\"",",","\"","d","o","n","e","\"",":",
      "t","r","u","e","}">>

\* {"response":"{}","done":true}
ENV_EMPTY_OBJ ==
    <<"{","\"","r","e","s","p","o","n","s","e","\"",":","\"","{","}","\"",",","\"","d","o","n",
      "e","\"",":","t","r","u","e","}">>

\* Hello world
R_PROSE ==
    <<"H","e","l","l","o"," ","w","o","r","l","d">>

\* {"response":"Hello world","done":true}
ENV_PROSE ==
    <<"{","\"","r","e","s","p","o","n","s","e","\"",":","\"","H","e","l","l","o"," ","w","o",
      "r","l","d","\"",",","\"","d","o","n","e","\"",":","t","r","u","e","}">>

\* {"response":"[1]","done":true}
ENV_LIST ==
    <<"{","\"","r","e","s","p","o","n","s","e","\"",":","\"","[","1","]","\"",",","\"","d","o",
      "n","e","\"",":","t","r","u","e","}">>

\* {"response":"\"s\"","done":true}
ENV_STRING ==
    <<"{","\"","r","e","s","p","o","n","s","e","\"",":","\"","\\","\"","s","\\","\"","\"",",",
      "\"","d","o","n","e","\"",":","t","r","u","e","}">>

\* {"response":"7","done":true}
ENV_NUMBER ==
    <<"{","\"","r","e","s","p","o","n","s","e","\"",":","\"","7","\"",",","\"","d","o","n","e",
      "\"",":","t","r","u","e","}">>

\* {"response":"","done":true}
ENV_EMPTY ==
    <<"{","\"","r","e","s","p","o","n","s","e","\"",":","\"","\"",",","\"","d","o","n","e","\"",
      ":","t","r","u","e","}">>

\* {"response":"{\"title\":\"T\"","done":true}
ENV_TRUNCATED ==
    <<"{","\"","r","e","s","p","o","n","s","e","\"",":","\"","{","\\","\"","t","i","t","l","e",
      "\\","\"",":","\\","\"","T","\\","\"","\"",",","\"","d","o","n","e","\"",":","t","r","u",
      "e","}">>

\* {"response":"{\"title\":null,\"content\":\"C\"}","done":true}
ENV_NULL_TITLE ==
    <<"{","\"","r","e","s","p","o","n","s","e","\"",":","\"","{","\\","\"","t","i","t","l","e",
      "\\","\"",":","n","u","l","l",",","\\","\"","c","o","n","t","e","n","t","\\","\"",":",
      "\\","\"","C","\\","\"","}","\"",",","\"","d","o","n","e","\"",":","t","r","u","e","}">>

\* {"response":"null","done":true}
ENV_NULL ==
    <<"{","\"","r","e","s","p","o","n","s","e","\"",":","\"","n","u","l","l","\"",",","\"","d",
      "o","n","e","\"",":","t","r","u","e","}">>

\* {"done":true}
ENV_NO_RESPONSE ==
    <<"{","\"","d","o","n","e","\"",":","t","r","u","e","}">>

\* <html>
ENV_NOT_JSON ==
    <<"<","h","t","m","l",">">>

\* []
ENV_JSON_LIST ==
    <<"[","]">>

\* {"response":5}
ENV_RESPONSE_INT ==
    <<"{","\"","r","e","s","p","o","n","s","e","\"",":","5","}">>

\* {"response":null}
ENV_RESPONSE_NULL ==
    <<"{","\"","r","e","s","p","o","n","s","e","\"",":","n","u","l","l","}">>

BODY_BOOM ==
    <<"b","o","o","m">>

BODY_NO_MODEL ==
    <<"{","\"","e","r","r","o","r","\"",":","\"","n","o"," ","m","o","d","e","l","\"","}">>

MSG_REFUSED ==
    <<"C","o","n","n","e","c","t","i","o","n"," ","r","e","f","u","s","e","d">>

MSG_TIMED_OUT ==
    <<"R","e","a","d"," ","t","i","m","e","d"," ","o","u","t">>

MSG_BAD_AUDIO ==
    <<"I","n","v","a","l","i","d"," ","d","a","t","a">>

MSG_DISK_FULL ==
    <<"N","o"," ","s","p","a","c","e"," ","l","e","f","t"," ","o","n"," ","d","e","v","i","c",
      "e">>

MSG_IO ==
    <<"I","/","O"," ","o","p","e","r","a","t","i","o","n"," ","o","n"," ","c","l","o","s","e",
      "d"," ","f","i","l","e">>

MSG_EXPECTING_VALUE ==
    <<"E","x","p","e","c","t","i","n","g"," ","v","a","l","u","e">>

SEG_HELLO ==
    <<"H","e","l","l","o"," ">>

SEG_WORLD ==
    <<"w","o","r","l","d",".">>

STR_HELLO_WORLD ==
    <<"H","e","l","l","o"," "," ","w","o","r","l","d",".">>

(***************************************************************************)
(* Exceptions and HTTP responses                                           *)
(***************************************************************************)
DigitChar(d) == <<"0","1","2","3","4","5","6","7","8","9">>[d + 1]

\* str() of a three-digit status code
StatusText(n) ==
    <<DigitChar(n \div 100), DigitChar((n \div 10) % 10), DigitChar(n % 10)>>

HTTPException(status_code, detail) ==
    [type |-> "HTTPException", status_code |-> status_code, msg |-> detail]
PyException(type, msg) == [type |-> type, status_code |-> 0, msg |-> msg]
NoException == PyException("none", <<>>)

\* variant: str(e) of an exception built from keyword arguments alone, which
\* leaves its args empty
ExcStrArgs(e) == IF e.type = "HTTPException" THEN <<>> ELSE e.msg

\* str(e): Starlette's HTTPException prints "<status_code>: <detail>", any
\* other exception prints its message
ExcStr(e) ==
    IF e.type = "HTTPException"
    THEN StatusText(e.status_code) \o <<":", " ">> \o e.msg
    ELSE e.msg

\* the message of the AttributeError raised by value.get on a non-dict
NoGetAttribute(kind) == <<"'", kind, "' object has no attribute 'get'">>
\* the message of the TypeError raised by json.loads on a non-str
NotAStr(kind) == <<"the JSON object must be str, bytes or bytearray, not ", kind>>

\* An HTTP response: keys are the fields of its JSON body.
BlankResponse ==
    [status |-> 0, keys |-> {}, success |-> FALSE, filename |-> <<>>,
     transcription |-> <<>>, title |-> PyNone, markdown |-> PyNone,
     detail |-> <<>>]

NoResponse == BlankResponse

\* what the framework sends for a raised HTTPException
ErrorResponse(e) ==
    [BlankResponse EXCEPT !.status = e.status_code, !.keys = {"detail"},
                          !.detail = e.msg]

\* what the server sends for an exception that is no HTTPException
ServerErrorResponse == [BlankResponse EXCEPT !.status = 500]

\* JSONResponse(content={...}) of the handler
SuccessResponse(fname, trans, struct) ==
    [BlankResponse EXCEPT
        !.status = 200,
        !.keys = {"success", "filename", "transcription", "title", "markdown"},
        !.success = TRUE, !.filename = fname, !.transcription = trans,
        !.title = struct.title, !.markdown = struct.content]

(***************************************************************************)
(* What the collaborators hand back                                        *)
(***************************************************************************)
\* requests.post / requests.get: a response, or a raised exception
HttpReply(status_code, text) ==
    [raised |-> "none", status_code |-> status_code, text |-> text]
HttpRaised(kind, msg) == [raised |-> kind, status_code |-> 0, text |-> msg]
NoReply == HttpRaised("unset", <<>>)

\* model.transcribe: a sequence of segment texts, or a raised exception
Recognized(segs) == [raised |-> "none", segments |-> segs, msg |-> <<>>]
RecognizerRaised(kind, msg) == [raised |-> kind, segments |-> <<>>, msg |-> msg]
NoRecognition == RecognizerRaised("unset", <<>>)

\* file.read() and temp_file.write()/flush(): done, or a raised OSError
IoDone == [raised |-> "none", msg |-> <<>>]
IoRaised(msg) == [raised |-> "OSError", msg |-> msg]

\* a local variable that has not been assigned
Unbound == PyVal("unbound", <<>>, <<>>)
Unstructured == [title |-> Unbound, content |-> Unbound]

\* how a call ends
Returned(v) == [raised |-> FALSE, exc |-> NoException, value |-> v]
Raised(e, v) == [raised |-> TRUE, exc |-> e, value |-> v]

(***************************************************************************)
(* transcribe_audio                                                        *)
(***************************************************************************)
\* variant: empty segments are dropped before the join
transcribe_audio_skip_empty(outcome) ==
    IF outcome.raised = "none"
    THEN Returned(Join(<<" ">>, SelectSeq(outcome.segments, LAMBDA s : s # <<>>)))
    ELSE Raised(HTTPException(500, STR_TRANSCRIPTION_FAILED \o outcome.msg), <<>>)

transcribe_audio(outcome) ==
    IF outcome.raised = "none"
    THEN Returned(Join(<<" ">>, outcome.segments))
    ELSE Raised(HTTPException(500, STR_TRANSCRIPTION_FAILED \o outcome.msg), <<>>)

(***************************************************************************)
(* structure_with_ollama                                                   *)
(***************************************************************************)
\* the f-string prompt: the fixed instructions around the transcription
BuildPrompt(transcription) ==
    <<"You are a helpful assistant ... Transcription:\n">>
        \o transcription
        \o <<"\n\nPlease respond with a JSON object ... Example response format: ...">>

\* the value structure_with_ollama returns from a decoded dict
FromStructured(structured_data, transcription) ==
    [title |-> DictGet(structured_data, KEY_TITLE, PyStr(STR_VOICE_NOTE)),
     content |-> DictGet(structured_data, KEY_CONTENT, PyStr(transcription))]

\* variant: the raw text without the heading
FallbackRaw(response_text) ==
    [title |-> PyStr(STR_VOICE_NOTE_TRANSCRIPTION),
     content |-> PyStr(response_text)]

\* the value it returns when the response text is not JSON
Fallback(response_text) ==
    [title |-> PyStr(STR_VOICE_NOTE_TRANSCRIPTION),
     content |-> PyStr(STR_FALLBACK_HEADING \o response_text)]

\* the inner try: json.loads(response_text) and the two returns
ParseStructured(response_text, transcription) ==
    IF response_text.kind # "str"
    THEN Raised(PyException("TypeError", NotAStr(response_text.kind)), Unstructured)
    ELSE LET structured_data == JsonLoads(response_text.s)
         IN IF ~structured_data.ok THEN Returned(Fallback(response_text.s))
            ELSE IF structured_data.value.kind # "dict"
            THEN Raised(PyException("AttributeError",
                                    NoGetAttribute(structured_data.value.kind)),
                        Unstructured)
            ELSE Returned(FromStructured(structured_data.value, transcription))

\* except requests.exceptions.RequestException as e
Unavailable(msg) ==
    Raised(HTTPException(503, STR_OLLAMA_UNAVAILABLE \o msg), Unstructured)

structure_with_ollama(transcription, reply) ==
    IF reply.raised # "none" THEN Unavailable(reply.text)
    ELSE IF reply.status_code # 200
    THEN Raised(HTTPException(500, STR_OLLAMA_REQUEST_FAILED \o reply.text),
                Unstructured)
    ELSE LET result == JsonLoads(reply.text)
         IN \* response.json() raises requests.exceptions.JSONDecodeError,
            \* which is a RequestException
            IF ~result.ok THEN Unavailable(MSG_EXPECTING_VALUE)
            ELSE IF result.value.kind # "dict"
            THEN Raised(PyException("AttributeError",
                                    NoGetAttribute(result.value.kind)),
                        Unstructured)
            ELSE ParseStructured(DictGet(result.value, KEY_RESPONSE, PyStr(<<>>)),
                                 transcription)

(***************************************************************************)
(* GET /health                                                             *)
(***************************************************************************)
NoHealth == [probe |-> NoReply, api |-> "", whisper |-> "", ollama |-> ""]

\* variant: the except clause misses the assignment
health_check_unknown(probe) ==
    [probe |-> probe, api |-> "healthy", whisper |-> "loaded",
     ollama |-> IF probe.raised # "none" THEN "unknown"
                ELSE IF probe.status_code = 200 THEN "healthy"
                ELSE "unhealthy"]

health_check(probe) ==
    [probe |-> probe, api |-> "healthy", whisper |-> "loaded",
     ollama |-> IF probe.raised # "none" THEN "unavailable"
                ELSE IF probe.status_code = 200 THEN "healthy"
                ELSE "unhealthy"]

(***************************************************************************)
(* POST /transcribe                                                        *)
(***************************************************************************)
Requests == 1..MaxRequests
Paths == 1..NumPaths
\* temp_path before its assignment; no file
NoPath == 0

InList(x, list) == \E i \in 1..Len(list) : list[i] = x

\* variant: the suffix as declared, not lower-cased
FileExtAsDeclared(fname) == PathSuffix(fname)

\* file_ext = Path(file.filename).suffix.lower()
FileExt(fname) == Lower(PathSuffix(fname))

\* the detail of the 400
UnsupportedDetail(ext) ==
    STR_UNSUPPORTED \o ext \o STR_ALLOWED \o Join(<<",", " ">>, allowed_extensions)

\* except Exception as e: raise HTTPException(status_code=500, detail=str(e))
HandlerExcept(e) == ErrorResponse(HTTPException(500, ExcStr(e)))

NoFile == [exists |-> FALSE, data |-> <<>>, owner |-> 0]
NoUpload == [filename |-> <<>>, bytes |-> <<>>]
TranscribeCall(path, data) ==
    [op |-> "transcribe", path |-> path, data |-> data, prompt |-> <<>>]
GenerateCall(prompt) ==
    [op |-> "generate", path |-> NoPath, data |-> <<>>, prompt |-> prompt]

Prefixes(s) == {SubSeq(s, 1, k) : k \in 0..Len(s)}
SeqsUpTo(S, n) == UNION {[1..k -> S] : k \in 0..n}

VARIABLES
    pc,             \* where each request's handler stands
    file,           \* the UploadFile: declared filename and bytes
    file_ext,       \* local file_ext
    temp_file,      \* temp_file.name, NoPath before NamedTemporaryFile
    content,        \* local content
    temp_path,      \* local temp_path, NoPath while unassigned
    segments,       \* what model.transcribe handed back
    transcription,  \* local transcription
    reply,          \* what requests.post handed back
    structured,     \* local structured
    calls,          \* the outbound calls the request has made, in order
    response,       \* the response (while pc = "finally": the one pending)
    disk,           \* the temp directory: path -> file
    health          \* the last GET /health: probe and response

vars == <<pc, file, file_ext, temp_file, content, temp_path, segments,
          transcription, reply, structured, calls, response, disk, health>>

Init ==
    /\ pc = [r \in Requests |-> "idle"]
    /\ file = [r \in Requests |-> NoUpload]
    /\ file_ext = [r \in Requests |-> <<>>]
    /\ temp_file = [r \in Requests |-> NoPath]
    /\ content = [r \in Requests |-> <<>>]
    /\ temp_path = [r \in Requests |-> NoPath]
    /\ segments = [r \in Requests |-> NoRecognition]
    /\ transcription = [r \in Requests |-> Unbound]
    /\ reply = [r \in Requests |-> NoReply]
    /\ structured = [r \in Requests |-> Unstructured]
    /\ calls = [r \in Requests |-> <<>>]
    /\ response = [r \in Requests |-> NoResponse]
    /\ disk = [p \in Paths |-> NoFile]
    /\ health = NoHealth

\* lines 139-149: derive the extension and reject what is not allowed
Validate(r, fname, bytes) ==
    /\ pc[r] = "idle"
    /\ file' = [file EXCEPT ![r] = [filename |-> fname, bytes |-> bytes]]
    /\ file_ext' = [file_ext EXCEPT ![r] = FileExt(fname)]
    /\ IF ~InList(FileExt(fname), allowed_extensions)
       THEN /\ response' = [response EXCEPT ![r] =
                  ErrorResponse(HTTPException(400, UnsupportedDetail(FileExt(fname))))]
            /\ pc' = [pc EXCEPT ![r] = "done"]
       ELSE /\ pc' = [pc EXCEPT ![r] = "alloc"]
            /\ UNCHANGED response
    /\ UNCHANGED <<temp_file, content, temp_path, segments, transcription,
                   reply, structured, calls, disk, health>>

\* variant: a name is picked without the exclusive create
AnyPath == Paths

\* the paths tempfile may create the file at: those with no file (O_EXCL)
FreePaths == {p \in Paths : ~disk[p].exists}

\* line 152: tempfile.NamedTemporaryFile(delete=False, suffix=file_ext)
NamedTemporaryFile(r, p) ==
    /\ pc[r] = "alloc"
    /\ p \in FreePaths
    /\ disk' = [disk EXCEPT ![p] = [exists |-> TRUE, data |-> <<>>, owner |-> r]]
    /\ temp_file' = [temp_file EXCEPT ![r] = p]
    /\ pc' = [pc EXCEPT ![r] = "read"]
    /\ UNCHANGED <<file, file_ext, content, temp_path, segments, transcription,
                   reply, structured, calls, response, health>>

\* line 155: content = await file.read()
ReadUpload(r, io) ==
    /\ pc[r] = "read"
    /\ IF io.raised = "none"
       THEN /\ content' = [content EXCEPT ![r] = file[r].bytes]
            /\ pc' = [pc EXCEPT ![r] = "write"]
            /\ UNCHANGED response
       ELSE /\ response' = [response EXCEPT ![r] =
                  HandlerExcept(PyException(io.raised, io.msg))]
            /\ pc' = [pc EXCEPT ![r] = "finally"]
            /\ UNCHANGED content
    /\ UNCHANGED <<file, file_ext, temp_file, temp_path, segments, transcription,
                   reply, structured, calls, disk, health>>

\* variant: the bytes stay in the buffer when the Recognizer opens the path
WriteNoFlush(r, io) ==
    /\ pc[r] = "write"
    /\ temp_path' = [temp_path EXCEPT ![r] = temp_file[r]]
    /\ pc' = [pc EXCEPT ![r] = "whisper"]
    /\ UNCHANGED <<file, file_ext, temp_file, content, segments, transcription,
                   reply, structured, calls, response, disk, health>>

\* lines 156-158: temp_file.write(content); temp_file.flush();
\* temp_path = temp_file.name.  A failing write leaves part of the bytes.
WriteFlush(r, io) ==
    /\ pc[r] = "write"
    /\ IF io.raised = "none"
       THEN /\ disk' = [disk EXCEPT ![temp_file[r]].data = content[r]]
            /\ temp_path' = [temp_path EXCEPT ![r] = temp_file[r]]
            /\ pc' = [pc EXCEPT ![r] = "whisper"]
            /\ UNCHANGED response
       ELSE /\ \E written \in Prefixes(content[r]) :
                  disk' = [disk EXCEPT ![temp_file[r]].data = written]
            /\ response' = [response EXCEPT ![r] =
                  HandlerExcept(PyException(io.raised, io.msg))]
            /\ pc' = [pc EXCEPT ![r] = "finally"]
            /\ UNCHANGED temp_path
    /\ UNCHANGED <<file, file_ext, temp_file, content, segments, transcription,
                   reply, structured, calls, health>>

\* line 162: transcription = transcribe_audio(temp_path)
Transcribe(r, outcome) ==
    /\ pc[r] = "whisper"
    /\ calls' = [calls EXCEPT ![r] =
          Append(@, TranscribeCall(temp_path[r], disk[temp_path[r]].data))]
    /\ segments' = [segments EXCEPT ![r] = outcome]
    /\ LET res == transcribe_audio(outcome)
       IN IF res.raised
          THEN /\ response' = [response EXCEPT ![r] = HandlerExcept(res.exc)]
               /\ pc' = [pc EXCEPT ![r] = "finally"]
               /\ UNCHANGED transcription
          ELSE /\ transcription' = [transcription EXCEPT ![r] = PyStr(res.value)]
               /\ pc' = [pc EXCEPT ![r] = "ollama"]
               /\ UNCHANGED response
    /\ UNCHANGED <<file, file_ext, temp_file, content, temp_path, reply,
                   structured, disk, health>>

\* line 167: structured = structure_with_ollama(transcription)
Structure(r, rep) ==
    /\ pc[r] = "ollama"
    /\ calls' = [calls EXCEPT ![r] =
          Append(@, GenerateCall(BuildPrompt(transcription[r].s)))]
    /\ reply' = [reply EXCEPT ![r] = rep]
    /\ LET res == structure_with_ollama(transcription[r].s, rep)
       IN IF res.raised
          THEN /\ response' = [response EXCEPT ![r] = HandlerExcept(res.exc)]
               /\ pc' = [pc EXCEPT ![r] = "finally"]
               /\ UNCHANGED structured
          ELSE /\ structured' = [structured EXCEPT ![r] = res.value]
               /\ pc' = [pc EXCEPT ![r] = "return"]
               /\ UNCHANGED response
    /\ UNCHANGED <<file, file_ext, temp_file, content, temp_path, segments,
                   transcription, disk, health>>

\* lines 170-176: return JSONResponse(content={...})
Return(r) ==
    /\ pc[r] = "return"
    /\ response' = [response EXCEPT ![r] =
          SuccessResponse(file[r].filename, transcription[r].s, structured[r])]
    /\ pc' = [pc EXCEPT ![r] = "finally"]
    /\ UNCHANGED <<file, file_ext, temp_file, content, temp_path, segments,
                   transcription, reply, structured, calls, disk, health>>

\* lines 181-184: the finally block.  Reading temp_path while it is unassigned
\* raises UnboundLocalError, which replaces whatever was pending.
Finally(r) ==
    /\ pc[r] = "finally"
    /\ IF temp_path[r] = NoPath
       THEN /\ response' = [response EXCEPT ![r] = ServerErrorResponse]
            /\ UNCHANGED disk
       ELSE /\ disk' = IF disk[temp_path[r]].exists
                       THEN [disk EXCEPT ![temp_path[r]] = NoFile]
                       ELSE disk
            /\ UNCHANGED response
    /\ pc' = [pc EXCEPT ![r] = "done"]
    /\ UNCHANGED <<file, file_ext, temp_file, content, temp_path, segments,
                   transcription, reply, structured, calls, health>>

\* lines 113-127
HealthCheck(probe) ==
    /\ health' = health_check(probe)
    /\ UNCHANGED <<pc, file, file_ext, temp_file, content, temp_path, segments,
                   transcription, reply, structured, calls, response, disk>>

(***************************************************************************)
(* Inputs                                                                  *)
(***************************************************************************)
Filenames ==
    {<<"a",".","m","p","3">>,
     <<"a",".","M","P","3">>,
     <<"b",".","W","a","v">>,
     <<"c",".","t","a","r",".","o","g","g">>,
     <<"e",".","F","L","A","C">>,
     <<"v",".","1","/","g",".","m","4","a">>,
     <<"f",".","a","a","c">>,
     <<"a",".","t","x","t">>,
     <<"n","o","e","x","t">>,
     <<".","m","p","3">>,
     <<"a",".","m","p","3",".">>,
     <<"a",".","m","p","3","3">>,
     <<"d",".","o","g","g","/","x">>,
     <<"h",".","M","p","4">>,
     <<>>}

FewFilenames == {<<"a",".","m","p","3">>, <<"a",".","t","x","t">>}

\* the bytes of request r's upload
UploadsOf(r) == {<<r, 0>>}

SegTexts == {<<>>, <<"a">>, SEG_HELLO, SEG_WORLD}

RecognizerOutcomes ==
    {Recognized(s) : s \in SeqsUpTo(SegTexts, MaxSegs)}
        \cup {RecognizerRaised("RuntimeError", MSG_BAD_AUDIO)}

FewRecognizerOutcomes ==
    {Recognized(<<SEG_HELLO, SEG_WORLD>>),
     RecognizerRaised("RuntimeError", MSG_BAD_AUDIO)}

Envelopes ==
    {ENV_TC, ENV_T, ENV_C, ENV_EMPTY_OBJ, ENV_PROSE, ENV_LIST, ENV_STRING,
     ENV_NUMBER, ENV_EMPTY, ENV_TRUNCATED, ENV_NULL_TITLE, ENV_NULL,
     ENV_NO_RESPONSE, ENV_NOT_JSON, ENV_JSON_LIST, ENV_RESPONSE_INT,
     ENV_RESPONSE_NULL}

Replies ==
    {HttpReply(200, e) : e \in Envelopes}
        \cup {HttpReply(500, BODY_BOOM), HttpReply(404, BODY_NO_MODEL),
              HttpRaised("ConnectionError", MSG_REFUSED),
              HttpRaised("Timeout", MSG_TIMED_OUT)}

FewReplies ==
    {HttpReply(200, ENV_TC), HttpRaised("ConnectionError", MSG_REFUSED)}

Probes ==
    {HttpReply(s, <<>>) : s \in {200, 404, 500}}
        \cup {HttpRaised(k, <<>>) :
                k \in {"ConnectionError", "Timeout", "KeyboardInterrupt"}}

ReadOutcomes == {IoDone, IoRaised(MSG_IO)}
WriteOutcomes == {IoDone, IoRaised(MSG_DISK_FULL)}

(***************************************************************************)
(* Specifications                                                          *)
(***************************************************************************)
\* one step of request r's handler, its inputs drawn from the given sets
Handle(r, fnames, outcomes, replies) ==
    \/ \E f \in fnames, b \in UploadsOf(r) : Validate(r, f, b)
    \/ \E p \in Paths : NamedTemporaryFile(r, p)
    \/ \E io \in ReadOutcomes : ReadUpload(r, io)
    \/ \E io \in WriteOutcomes : WriteFlush(r, io)
    \/ \E o \in outcomes : Transcribe(r, o)
    \/ \E rep \in replies : Structure(r, rep)
    \/ Return(r)
    \/ Finally(r)

\* concurrently handled requests
Next == \E r \in Requests : Handle(r, FewFilenames, FewRecognizerOutcomes, FewReplies)

Spec == Init /\ [][Next]_vars

\* one request over the full input sets
NextOne == Handle(1, Filenames, RecognizerOutcomes, Replies)

SpecOne == Init /\ [][NextOne]_vars

\* health probes arriving while a request is handled
NextHealth ==
    \/ \E probe \in Probes : HealthCheck(probe)
    \/ Handle(1, FewFilenames, FewRecognizerOutcomes, FewReplies)

SpecHealth == Init /\ [][NextHealth]_vars

(***************************************************************************)
(* Properties                                                              *)
(***************************************************************************)
Done(r) == pc[r] = "done"
InFlight(r) == pc[r] \notin {"idle", "done"}

\* s occurs in t as a contiguous run of characters
Contains(t, s) ==
    \E i \in 0..(Len(t) - Len(s)) : SubSeq(t, i + 1, i + Len(s)) = s

HasKey(d, key) == \E i \in 1..Len(d.members) : d.members[i].key = key

\* the files on disk that request r created
FilesOf(r) == {p \in Paths : disk[p].exists /\ disk[p].owner = r}

\* the Structuring Service could not be reached
Unreachable(r) == reply[r].raised \notin {"none", "unset"}
\* the Structuring Service answered with this status test
Answered(r) == reply[r].raised = "none"
\* the Recognizer raised
RecognizerFailed(r) == segments[r].raised \notin {"none", "unset"}

\* the allow-list as the specification states it
SpecExtensions ==
    {<<".","m","p","3">>,
     <<".","w","a","v">>,
     <<".","m","4","a">>,
     <<".","o","g","g">>,
     <<".","f","l","a","c">>,
     <<".","a","a","c">>}

PROSE_MARKDOWN ==
    <<"#"," ","V","o","i","c","e"," ","N","o","t","e"," ","T","r","a","n","s","c","r","i","p",
      "t","i","o","n","\n","\n","H","e","l","l","o"," ","w","o","r","l","d">>

\* C1: when transcription succeeded and the Structuring Service cannot be
\* reached, the response has status 503 and no "markdown" field.
C1_UnreachableIs503 ==
    \A r \in Requests :
        Done(r) /\ Unreachable(r) =>
            /\ response[r].status = 503
            /\ "markdown" \notin response[r].keys

\* C2: in every terminal state of a request that passed extension
\* validation, the temporary file allocated for it is no longer on disk.
C2_TempFileRemovedAtExit ==
    \A r \in Requests :
        Done(r) /\ file_ext[r] \in SpecExtensions => FilesOf(r) = {}

\* C3: a filename whose lowercased suffix is outside the allow-list ends in
\* status 400 with no temporary file created and no engine called; a filename
\* whose suffix is in the list, in any letter case, is not rejected.
C3_ExtensionValidation ==
    \A r \in Requests :
        pc[r] # "idle" =>
            /\ Lower(PathSuffix(file[r].filename)) \notin SpecExtensions =>
                  /\ Done(r)
                  /\ response[r].status = 400
                  /\ temp_file[r] = NoPath
                  /\ FilesOf(r) = {}
                  /\ calls[r] = <<>>
            /\ Lower(PathSuffix(file[r].filename)) \in SpecExtensions =>
                  response[r].status # 400
            /\ file[r].filename = <<"a",".","M","P","3">> =>
                  response[r].status # 400

C3_Witness ==
    /\ Done(1)
    /\ file[1].filename = <<"a",".","m","p","3",".">>
    /\ response[1].status = 400

\* C4: whenever the Structuring Service answers the generate call with HTTP
\* 200, the request succeeds with status 200, success=true, a title and
\* markdown, whatever the reply holds.
C4_Http200NeverFails ==
    \A r \in Requests :
        Done(r) /\ Answered(r) /\ reply[r].status_code = 200 =>
            /\ response[r].status = 200
            /\ response[r].success
            /\ {"title", "markdown"} \subseteq response[r].keys

\* C5: in a successful response, with R the "response" text of the reply and
\* X the transcript: if R decodes to a JSON object, title is its "title"
\* field if present else "Voice Note" and markdown its "content" field if
\* present else X; if R is not valid JSON, title is "Voice Note
\* Transcription" and markdown is "# Voice Note Transcription\n\n" then R.
C5_TitleAndMarkdown ==
    \A r \in Requests :
        Done(r) /\ response[r].success =>
            LET R == DictGet(JsonLoads(reply[r].text).value, KEY_RESPONSE, PyStr(<<>>)).s
                X == response[r].transcription
                d == JsonLoads(R)
                title == response[r].title
                markdown == response[r].markdown
            IN /\ d.ok /\ d.value.kind = "dict" =>
                   /\ HasKey(d.value, KEY_TITLE) =>
                         title = DictGet(d.value, KEY_TITLE, PyNone)
                   /\ ~HasKey(d.value, KEY_TITLE) =>
                         title = PyStr(<<"V","o","i","c","e"," ","N","o","t","e">>)
                   /\ HasKey(d.value, KEY_CONTENT) =>
                         markdown = DictGet(d.value, KEY_CONTENT, PyNone)
                   /\ ~HasKey(d.value, KEY_CONTENT) => markdown = PyStr(X)
               /\ ~d.ok =>
                   /\ title = PyStr(<<"V","o","i","c","e"," ","N","o","t","e"," ",
                                      "T","r","a","n","s","c","r","i","p","t","i","o","n">>)
                   /\ markdown.kind = "str"
                   /\ Len(markdown.s) = 28 + Len(R)
                   /\ SubSeq(markdown.s, 1, 28) = SubSeq(PROSE_MARKDOWN, 1, 28)
                   /\ SubSeq(markdown.s, 29, Len(markdown.s)) = R
               /\ R = R_TC => title = PyStr(<<"T">>) /\ markdown = PyStr(<<"C">>)
               /\ R = R_PROSE => markdown = PyStr(PROSE_MARKDOWN)

C5_Witness ==
    /\ Done(1)
    /\ response[1].success
    /\ reply[1].text = ENV_T
    /\ response[1].title = PyStr(<<"T">>)
    /\ response[1].markdown = PyStr(STR_HELLO_WORLD)

\* C6: if the Recognizer raises, or the Structuring Service answers with a
\* status other than 200, the response is a 500 whose detail carries the
\* underlying message, never a success body, and the failed call was made
\* once.
C6_EngineFailureIs500 ==
    \A r \in Requests :
        Done(r) =>
            /\ RecognizerFailed(r) =>
                  /\ response[r].status = 500
                  /\ response[r].keys = {"detail"}
                  /\ ~response[r].success
                  /\ Contains(response[r].detail, segments[r].msg)
                  /\ Len(calls[r]) = 1
            /\ Answered(r) /\ reply[r].status_code # 200 =>
                  /\ response[r].status = 500
                  /\ response[r].keys = {"detail"}
                  /\ ~response[r].success
                  /\ Contains(response[r].detail, reply[r].text)
                  /\ Len(calls[r]) = 2

C6_Witness ==
    /\ Done(1)
    /\ Answered(1)
    /\ reply[1].status_code = 404
    /\ response[1].status = 500

\* C7: GET /health always answers: "api" is "healthy", "whisper" is "loaded",
\* and "ollama" is "healthy" exactly when the probe returned 200, "unhealthy"
\* when it returned another status, "unavailable" when it raised; never
\* "unknown".
C7_HealthNeverRaises ==
    /\ \A probe \in Probes : ENABLED HealthCheck(probe)
    /\ health # NoHealth =>
          /\ health.api = "healthy"
          /\ health.whisper = "loaded"
          /\ health.ollama # "unknown"
          /\ health.ollama = "healthy" <=>
                (health.probe.raised = "none" /\ health.probe.status_code = 200)
          /\ health.probe.raised = "none" /\ health.probe.status_code # 200 =>
                health.ollama = "unhealthy"
          /\ health.probe.raised # "none" => health.ollama = "unavailable"

C7_Witness ==
    /\ health.probe.raised = "KeyboardInterrupt"
    /\ health.ollama = "unavailable"

\* C8 (state part): an in-flight request owns at most one temporary file and
\* no two in-flight requests hold the same temp path.
C8_OwnPath ==
    /\ \A r \in Requests : InFlight(r) => Cardinality(FilesOf(r)) <= 1
    /\ \A r1, r2 \in Requests :
          /\ r1 # r2
          /\ InFlight(r1) /\ InFlight(r2)
          /\ temp_file[r1] # NoPath
          => temp_file[r1] # temp_file[r2]

\* C8 (step part): a file is removed, or its bytes change, only in a step of
\* the request that created it; a removal is that request's own cleanup.
C8_OwnCleanup ==
    \A p \in Paths :
        disk[p].exists /\ disk'[p] # disk[p] =>
            LET o == disk[p].owner
            IN /\ pc'[o] # pc[o]
               /\ temp_file[o] = p
               /\ ~disk'[p].exists => pc[o] = "finally" /\ temp_path[o] = p

\* C8: under any interleaving of concurrent requests, each in-flight request
\* owns at most one temporary file, no two in-flight requests hold the same
\* temp path, and a cleanup removes only the request's own file.
C8_TempFilesRequestLocal == []C8_OwnPath /\ [][C8_OwnCleanup]_vars

C8_Witness ==
    /\ pc[1] = "whisper"
    /\ pc[2] = "done"
    /\ temp_path[2] # NoPath
    /\ disk[temp_path[1]].exists
    /\ ~disk[temp_path[2]].exists

\* C9: the outbound calls of a request are a prefix of <transcribe(staged
\* path), generate(prompt)>: the Recognizer is called once at most, on the
\* temp file holding all the uploaded bytes; the Structuring Service once at
\* most and only after the Recognizer returned; the transcript in the prompt
\* is the one in the response's "transcription" field.
C9_CallSequence ==
    \A r \in Requests :
        /\ Len(calls[r]) <= 2
        /\ Len(calls[r]) >= 1 =>
              /\ calls[r][1].op = "transcribe"
              /\ calls[r][1].path = temp_file[r]
              /\ calls[r][1].path # NoPath
              /\ calls[r][1].data = file[r].bytes
        /\ Len(calls[r]) = 2 =>
              /\ calls[r][2].op = "generate"
              /\ segments[r].raised = "none"
              /\ transcription[r].kind = "str"
        /\ RecognizerFailed(r) => Len(calls[r]) = 1
        /\ Done(r) /\ response[r].success =>
              /\ Len(calls[r]) = 2
              /\ Len(calls[r][2].prompt) = Len(response[r].transcription) + 2
              /\ SubSeq(calls[r][2].prompt, 2, Len(calls[r][2].prompt) - 1)
                    = response[r].transcription

C9_Witness ==
    /\ Done(2)
    /\ response[2].success
    /\ Len(calls[2]) = 2
    /\ calls[2][1].data = <<2, 0>>

RECURSIVE SumLen(_)
SumLen(segs) == IF segs = <<>> THEN 0 ELSE Len(Head(segs)) + SumLen(Tail(segs))

\* where segment i starts in the transcript, counting from 0
Offset(segs, i) == SumLen(SubSeq(segs, 1, i - 1)) + (i - 1)

\* C10: the transcript is the segment texts in their returned order, each
\* pair separated by exactly one space, nothing trimmed, filtered or
\* reordered; ["Hello ", "world."] gives "Hello  world.", no segment gives
\* the empty string, one segment gives its text.
C10_SpaceJoined ==
    \A r \in Requests :
        segments[r].raised = "none" =>
            LET segs == segments[r].segments
                X == transcription[r].s
            IN /\ transcription[r].kind = "str"
               /\ Len(X) = SumLen(segs) + (IF segs = <<>> THEN 0 ELSE Len(segs) - 1)
               /\ \A i \in 1..Len(segs) :
                     SubSeq(X, Offset(segs, i) + 1, Offset(segs, i) + Len(segs[i]))
                        = segs[i]
               /\ \A i \in 1..(Len(segs) - 1) :
                     X[Offset(segs, i) + Len(segs[i]) + 1] = " "
               /\ segs = <<SEG_HELLO, SEG_WORLD>> => X = STR_HELLO_WORLD
               /\ segs = <<>> => X = <<>>
               /\ Len(segs) = 1 => X = segs[1]

C10_Witness ==
    /\ segments[1].segments = <<SEG_HELLO, <<>>>>
    /\ transcription[1].s = SEG_HELLO \o <<" ">>
    /\ pc[1] = "ollama"

====
